---- MODULE Spec2Model ----
(***************************************************************************)
(* A model of the CUDA Floyd-Warshall drivers cudaNaiveFW / cudaBlockedFW, *)
(* their device memory bridge and their two kernels.                       *)
(*                                                                         *)
(* Host side: one action per CUDA runtime call of the driver, each of      *)
(* which may fail, HANDLE_ERROR then ending the process.                   *)
(* Device side: kernels are taken from the default stream in issue order;  *)
(* the threads of the running kernel interleave freely, one action per     *)
(* group of memory accesses of a thread.                                   *)
(***************************************************************************)
EXTENDS Integers, Sequences, FiniteSets, TLC

(***************************************************************************)
(* Bounds of the model.                                                    *)
(***************************************************************************)
\* tile width (BLOCK_SIZE of cuda_apsp.cuh), scaled down
BLOCK_SIZE == 2
\* row alignment of cudaMallocPitch, in elements, scaled down
PitchAlign == 2
\* largest number of edges of an input graph
MaxEdges == 3
\* kernels the default stream holds before a launch has to wait
MaxPending == 1

(***************************************************************************)
(* Program constants.                                                      *)
(***************************************************************************)
\* the distance sentinel for "no edge" (cuda_apsp.cuh; below half of int)
MAX_DISTANCE == 1073741823
\* the predecessor sentinel
NONE == -1
\* largest value of a 32-bit int
MaxInt == 2147483647
\* sizeof(int)
SizeofInt == 4

MinInt == (0 - MaxInt) - 1

\* The input graphs are the subgraphs of this weighted graph (row i, column
\* j: the weight of edge i -> j). It has negative edges, a cycle of weight
\* zero and no negative cycle.
EdgeWeight ==
    << <<  0,  3,  3 >>,
       << -3,  0, -1 >>,
       <<  3,  MAX_DISTANCE,  0 >> >>

(***************************************************************************)
(* 32-bit int arithmetic.                                                  *)
(***************************************************************************)
Overflows(a, b) ==
    \/ (b > 0 /\ a > MaxInt - b)
    \/ (b < 0 /\ a < MinInt - b)

\* the sum kept in a 16-bit short
IntAddShort(a, b) ==
    ((((a % 65536) + (b % 65536)) + 32768) % 65536) - 32768

\* int + int, wrapping around on overflow (two's complement)
IntAdd(a, b) ==
    IF b > 0 /\ a > MaxInt - b
    THEN ((a - MaxInt) - 1) + ((b - MaxInt) - 1)
    ELSE IF b < 0 /\ a < MinInt - b
         THEN ((a + MaxInt) + 1) + ((b + MaxInt) + 1)
         ELSE a + b

\* integer division of C: truncation toward zero
CDiv(a, b) == IF a >= 0 THEN a \div b ELSE 0 - ((0 - a) \div b)

(***************************************************************************)
(* Input topologies: nvertex, a row-major distance matrix with zero        *)
(* diagonal and no negative cycle, and the predecessor matrix the loader   *)
(* derives from it.                                                        *)
(***************************************************************************)
Cells(n) == 0 .. (n * n - 1)

OffDiag(n) == { c \in Cells(n) : c \div n # c % n }

SatAdd(a, b) == IF a = MAX_DISTANCE \/ b = MAX_DISTANCE THEN MAX_DISTANCE ELSE a + b

Min2(a, b) == IF a < b THEN a ELSE b

RECURSIVE MinOver(_, _, _)
MinOver(S, f(_), acc) ==
    IF S = {} THEN acc
    ELSE LET m == CHOOSE m \in S : TRUE
         IN  MinOver(S \ {m}, f, Min2(acc, f(m)))

\* length of a shortest walk i ->* j of at most k edges (MAX_DISTANCE: none)
RECURSIVE Walk(_, _, _, _, _)
Walk(g, n, i, j, k) ==
    IF k = 0 THEN (IF i = j THEN 0 ELSE MAX_DISTANCE)
    ELSE LET via(m) == SatAdd(Walk(g, n, i, m, k - 1), g[m * n + j])
         IN  MinOver((0 .. n - 1) \ {j}, via, Walk(g, n, i, j, k - 1))

NoNegativeCycle(g, n) == \A i \in 0 .. n - 1 : Walk(g, n, i, i, n) >= 0

NumEdges(g, n) == Cardinality({ c \in OffDiag(n) : g[c] # MAX_DISTANCE })

\* largest nvertex of an input topology
MaxVertex == Len(EdgeWeight)

\* the graph of nvertex n with the edges E (a set of cells)
GraphOf(n, E) ==
    [c \in Cells(n) |->
        IF c \in E THEN EdgeWeight[(c \div n) + 1][(c % n) + 1]
        ELSE IF c \in OffDiag(n) THEN MAX_DISTANCE ELSE 0]

\* the cells of the edges an input of nvertex n may have
EdgeCells(n) ==
    { c \in OffDiag(n) : EdgeWeight[(c \div n) + 1][(c % n) + 1] # MAX_DISTANCE }

InputGraphs(n) ==
    { g \in { GraphOf(n, E) : E \in SUBSET EdgeCells(n) } :
        NumEdges(g, n) <= MaxEdges /\ NoNegativeCycle(g, n) }

\* P[i][j] = i for every edge i -> j, NONE elsewhere
InputPred(g, n) ==
    [c \in Cells(n) |->
        IF c \in OffDiag(n) /\ g[c] # MAX_DISTANCE THEN c \div n ELSE NONE]

(***************************************************************************)
(* State.                                                                  *)
(***************************************************************************)
VARIABLES
    nvertex,      \* dataHost->nvertex
    hostGraph,    \* dataHost->graph, row-major, width nvertex
    hostPred,     \* dataHost->pred
    inGraph,      \* dataHost->graph at the entry of the current call
    inPred,       \* dataHost->pred at the entry of the current call
    strategy,     \* "naive" (cudaNaiveFW) or "blocked" (cudaBlockedFW)
    run,          \* number of driver calls started
    pc,           \* the host's position in the driver
    vertex,       \* loop counter of the launch loop (vertex / blockID)
    pitch,        \* pitch returned by cudaMallocPitch, in bytes
    graphDevice,  \* device buffer of distances, row stride pitch
    predDevice,   \* device buffer of predecessors
    graphAlloc,   \* graphDevice is allocated
    predAlloc,    \* predDevice is allocated
    stream,       \* kernels issued to the default stream, not yet started
    kernel,       \* the kernel running on the device
    tpc,          \* position of each thread of the running kernel
    tloc,         \* registers of each thread (newPath, newPred, u)
    cacheGraph,   \* __shared__ cacheGraph of the running block
    cachePred,    \* __shared__ cachePred of the running block
    lastError,    \* a kernel launch has failed (cudaGetLastError)
    oob,          \* some thread accessed a cell with row or column >= nvertex
    overflow,     \* some sum of two distances left the int range
    devOps,       \* CUDA runtime calls made by the current driver call
    issued,       \* arguments of the kernels issued by the current call
    completed     \* arguments of the kernels completed, in completion order

vars == << nvertex, hostGraph, hostPred, inGraph, inPred, strategy, run, pc,
           vertex, pitch, graphDevice, predDevice, graphAlloc, predAlloc,
           stream, kernel, tpc, tloc, cacheGraph, cachePred, lastError, oob,
           overflow, devOps, issued, completed >>

hostVars == << nvertex, hostGraph, hostPred, inGraph, inPred, strategy, run >>
memVars == << pitch, graphDevice, predDevice, graphAlloc, predAlloc >>
devVars == << stream, kernel, tpc, tloc, cacheGraph, cachePred, oob, overflow,
              completed >>

NoKernel ==
    [kind |-> "none", arg |-> 0, grid |-> 0, pitch |-> 0, nvertex |-> 0,
     stale |-> 0]

NoRegs == [newPath |-> 0, newPred |-> 0, predSet |-> FALSE, u |-> 0]

Init ==
    /\ nvertex \in 0 .. MaxVertex
    /\ hostGraph \in InputGraphs(nvertex)
    /\ hostPred = InputPred(hostGraph, nvertex)
    /\ inGraph = hostGraph
    /\ inPred = hostPred
    /\ strategy = "none"
    /\ run = 0
    /\ pc = "idle"
    /\ vertex = 0
    /\ pitch = 0
    /\ graphDevice = << >>
    /\ predDevice = << >>
    /\ graphAlloc = FALSE
    /\ predAlloc = FALSE
    /\ stream = << >>
    /\ kernel = NoKernel
    /\ tpc = << >>
    /\ tloc = << >>
    /\ cacheGraph = << >>
    /\ cachePred = << >>
    /\ lastError = FALSE
    /\ oob = FALSE
    /\ overflow = FALSE
    /\ devOps = {}
    /\ issued = << >>
    /\ completed = << >>

(***************************************************************************)
(* Device memory bridge.                                                   *)
(***************************************************************************)
\* the pitch cudaMallocPitch chooses for rows of `width` bytes
MallocPitch(width) ==
    LET elems == width \div SizeofInt
    IN  SizeofInt * (((elems + PitchAlign - 1) \div PitchAlign) * PitchAlign)

\* a fresh allocation of `height` rows of `p` bytes
DeviceBuffer(p, height) == [a \in 0 .. ((p \div SizeofInt) * height - 1) |-> 0]

\* cudaMemcpy2D host -> device: `height` rows of `n` ints, device stride p bytes
Memcpy2DToDevice(dst, p, src, n) ==
    [a \in DOMAIN dst |->
        IF a % (p \div SizeofInt) < n
        THEN src[(a \div (p \div SizeofInt)) * n + (a % (p \div SizeofInt))]
        ELSE dst[a]]

\* cudaMemcpy2D device -> host
Memcpy2DToHost(src, p, n) ==
    [c \in Cells(n) |-> src[(c \div n) * (p \div SizeofInt) + (c % n)]]

\* HANDLE_ERROR: a failed call ends the process
HANDLE_ERROR(ok, next) == pc' = IF ok THEN next ELSE "exited"

\* entry of cudaNaiveFW / cudaBlockedFW
Enter(s) ==
    /\ run' = run + 1
    /\ strategy' = s
    /\ inGraph' = hostGraph
    /\ inPred' = hostPred
    /\ pc' = "setDevice"
    /\ devOps' = {}
    /\ issued' = << >>
    /\ completed' = << >>
    /\ UNCHANGED << nvertex, hostGraph, hostPred, vertex, memVars, stream,
                    kernel, tpc, tloc, cacheGraph, cachePred, lastError, oob,
                    overflow >>

\* the first call on a topology
Call(s) == pc = "idle" /\ Enter(s)

\* the same driver called again on the topology it returned
Recall == pc = "returned" /\ run = 1 /\ Enter(strategy)

SetDevice(ok) ==
    /\ pc = "setDevice"
    /\ devOps' = devOps \cup {"cudaSetDevice"}
    /\ HANDLE_ERROR(ok, "mallocGraph")
    /\ UNCHANGED << hostVars, vertex, memVars, devVars, lastError, issued >>

MallocGraph(ok) ==
    /\ pc = "mallocGraph"
    /\ devOps' = devOps \cup {"cudaMallocPitch"}
    /\ HANDLE_ERROR(ok, "mallocPred")
    /\ IF ok
       THEN /\ pitch' = MallocPitch(nvertex * SizeofInt)
            /\ graphDevice' = DeviceBuffer(pitch', nvertex)
            /\ graphAlloc' = TRUE
       ELSE UNCHANGED << pitch, graphDevice, graphAlloc >>
    /\ UNCHANGED << hostVars, vertex, predDevice, predAlloc, devVars, lastError,
                    issued >>

MallocPred(ok) ==
    /\ pc = "mallocPred"
    /\ devOps' = devOps \cup {"cudaMallocPitch"}
    /\ HANDLE_ERROR(ok, "copyGraphToDevice")
    /\ IF ok
       THEN /\ pitch' = MallocPitch(nvertex * SizeofInt)
            /\ predDevice' = DeviceBuffer(pitch', nvertex)
            /\ predAlloc' = TRUE
       ELSE UNCHANGED << pitch, predDevice, predAlloc >>
    /\ UNCHANGED << hostVars, vertex, graphDevice, graphAlloc, devVars,
                    lastError, issued >>

CopyGraphToDevice(ok) ==
    /\ pc = "copyGraphToDevice"
    /\ devOps' = devOps \cup {"cudaMemcpy2D"}
    /\ HANDLE_ERROR(ok, "copyPredToDevice")
    /\ graphDevice' = IF ok THEN Memcpy2DToDevice(graphDevice, pitch, hostGraph, nvertex)
                      ELSE graphDevice
    /\ UNCHANGED << hostVars, vertex, pitch, predDevice, graphAlloc, predAlloc,
                    devVars, lastError, issued >>

\* the first position after _cudaMoveMemoryToDevice
AfterUpload == IF strategy = "naive" THEN "launch" ELSE "eventRecordStart"

CopyPredToDevice(ok) ==
    /\ pc = "copyPredToDevice"
    /\ devOps' = devOps \cup {"cudaMemcpy2D"}
    /\ HANDLE_ERROR(ok, AfterUpload)
    /\ predDevice' = IF ok THEN Memcpy2DToDevice(predDevice, pitch, hostPred, nvertex)
                     ELSE predDevice
    /\ vertex' = 0
    /\ UNCHANGED << hostVars, pitch, graphDevice, graphAlloc, predAlloc,
                    devVars, lastError, issued >>

CopyPredToHost(ok) ==
    /\ pc = "copyPredToHost"
    /\ devOps' = devOps \cup {"cudaMemcpy2D"}
    /\ HANDLE_ERROR(ok, "copyGraphToHost")
    /\ hostPred' = IF ok THEN Memcpy2DToHost(predDevice, pitch, nvertex) ELSE hostPred
    /\ UNCHANGED << nvertex, hostGraph, inGraph, inPred, strategy, run, vertex,
                    memVars, devVars, lastError, issued >>

CopyGraphToHost(ok) ==
    /\ pc = "copyGraphToHost"
    /\ devOps' = devOps \cup {"cudaMemcpy2D"}
    /\ HANDLE_ERROR(ok, "freePred")
    /\ hostGraph' = IF ok THEN Memcpy2DToHost(graphDevice, pitch, nvertex) ELSE hostGraph
    /\ UNCHANGED << nvertex, hostPred, inGraph, inPred, strategy, run, vertex,
                    memVars, devVars, lastError, issued >>

FreePred(ok) ==
    /\ pc = "freePred"
    /\ devOps' = devOps \cup {"cudaFree"}
    /\ HANDLE_ERROR(ok, "freeGraph")
    /\ IF ok
       THEN predDevice' = << >> /\ predAlloc' = FALSE
       ELSE UNCHANGED << predDevice, predAlloc >>
    /\ UNCHANGED << hostVars, vertex, pitch, graphDevice, graphAlloc, devVars,
                    lastError, issued >>

FreeGraph(ok) ==
    /\ pc = "freeGraph"
    /\ devOps' = devOps \cup {"cudaFree"}
    /\ HANDLE_ERROR(ok, "returned")
    /\ IF ok
       THEN graphDevice' = << >> /\ graphAlloc' = FALSE
       ELSE UNCHANGED << graphDevice, graphAlloc >>
    /\ UNCHANGED << hostVars, vertex, pitch, predDevice, predAlloc, devVars,
                    lastError, issued >>

(***************************************************************************)
(* Drivers: the launch loops and what follows them.                        *)
(***************************************************************************)
\* the grid rounded down
NaiveGridFloor(n) == CDiv(n, BLOCK_SIZE)

\* dimGrid of cudaNaiveFW, per dimension
NaiveGrid(n) == CDiv(n - 1, BLOCK_SIZE) + 1

\* the block count computed without the - 1
NumBlockOffByOne(n) == CDiv(n, BLOCK_SIZE) + 1

\* numBlock of cudaBlockedFW
NumBlock(n) == CDiv(n - 1, BLOCK_SIZE) + 1

\* the kernel a launch of the naive loop issues
NaiveKernel(v) ==
    [kind |-> "naive", arg |-> v, grid |-> NaiveGrid(nvertex),
     pitch |-> pitch \div SizeofInt, nvertex |-> nvertex, stale |-> 0]

\* the kernel a launch of the blocked loop issues
DependentKernel(b) ==
    [kind |-> "dependent", arg |-> b, grid |-> 1,
     pitch |-> pitch \div SizeofInt, nvertex |-> nvertex, stale |-> 0]

\* a loop that stops one iteration early
LoopBoundShort == IF strategy = "naive" THEN nvertex - 1 ELSE NumBlock(nvertex)

\* number of iterations of the launch loop
LoopBound == IF strategy = "naive" THEN nvertex ELSE NumBlock(nvertex)

\* one iteration of a launch loop: a <<< >>> launch, whose failure is only
\* recorded. A launch fails for its configuration, which is the same in
\* every iteration: `failing` says whether the device rejects it.
Launch(failing, ok) ==
    /\ pc = "launch"
    /\ vertex < LoopBound
    /\ Len(stream) < MaxPending
    /\ ok = ~(lastError \/ (failing /\ vertex = 0))
    /\ devOps' = devOps \cup {"launch"}
    /\ IF ok
       THEN /\ stream' = Append(stream, IF strategy = "naive"
                                        THEN NaiveKernel(vertex)
                                        ELSE DependentKernel(vertex))
            /\ issued' = Append(issued, IF strategy = "naive"
                                        THEN NaiveKernel(vertex).arg
                                        ELSE DependentKernel(vertex).arg)
            /\ UNCHANGED lastError
       ELSE /\ lastError' = TRUE
            /\ UNCHANGED << stream, issued >>
    /\ vertex' = vertex + 1
    /\ UNCHANGED << hostVars, pc, memVars, kernel, tpc, tloc, cacheGraph,
                    cachePred, oob, overflow, completed >>

\* cudaEventCreate x2, cudaEventRecord(start): timing only
EventRecordStart ==
    /\ pc = "eventRecordStart"
    /\ devOps' = devOps \cup {"cudaEventRecord"}
    /\ pc' = "launch"
    /\ UNCHANGED << hostVars, vertex, memVars, devVars, lastError, issued >>

\* a synchronisation that returns without waiting
DeviceIdleNoWait == TRUE

\* every kernel issued to the default stream has completed
DeviceIdle == stream = << >> /\ kernel.kind = "none"

\* cudaEventRecord(stop), cudaEventSynchronize(stop): waits for the stream
EventSynchronize ==
    /\ pc = "launch"
    /\ strategy = "blocked"
    /\ vertex >= LoopBound
    /\ DeviceIdle
    /\ devOps' = devOps \cup {"cudaEventSynchronize"}
    /\ pc' = "getLastError"
    /\ UNCHANGED << hostVars, vertex, memVars, devVars, lastError, issued >>

GetLastError ==
    /\ \/ pc = "getLastError"
       \/ (pc = "launch" /\ strategy = "naive" /\ vertex >= LoopBound)
    /\ devOps' = devOps \cup {"cudaGetLastError"}
    /\ HANDLE_ERROR(~lastError, "deviceSynchronize")
    /\ UNCHANGED << hostVars, vertex, memVars, devVars, lastError, issued >>

\* cudaDeviceSynchronize: returns once the device is idle
DeviceSynchronize(ok) ==
    /\ pc = "deviceSynchronize"
    /\ DeviceIdle
    /\ devOps' = devOps \cup {"cudaDeviceSynchronize"}
    /\ HANDLE_ERROR(ok, "copyPredToHost")
    /\ UNCHANGED << hostVars, vertex, memVars, devVars, lastError, issued >>

(***************************************************************************)
(* Device: the default stream runs one kernel at a time, in issue order.   *)
(***************************************************************************)
\* a thread: << blockIdx.x, blockIdx.y, threadIdx.x, threadIdx.y >>
Threads(k) ==
    (0 .. k.grid - 1) \X (0 .. k.grid - 1) \X
    (0 .. BLOCK_SIZE - 1) \X (0 .. BLOCK_SIZE - 1)

Tile == (0 .. BLOCK_SIZE - 1) \X (0 .. BLOCK_SIZE - 1)

\* the address is a cell of the matrix: row and column below nvertex
InMatrix(k, a) ==
    /\ k.nvertex > 0
    /\ a >= 0
    /\ a < k.pitch * k.nvertex
    /\ a % k.pitch < k.nvertex

\* a load from device memory
Rd(mem, a) == IF a \in DOMAIN mem THEN mem[a] ELSE 0

\* a store to device memory
Wr(mem, a, v) == IF a \in DOMAIN mem THEN [mem EXCEPT ![a] = v] ELSE mem

\* x and y of a thread: blockDim * blockIdx + threadIdx
ThreadX(t) == BLOCK_SIZE * t[1] + t[3]
ThreadY(t) == BLOCK_SIZE * t[2] + t[4]

\* a guard that admits one row and one column too many
NaiveInRangeOffByOne(x, y, n) == y <= n /\ x <= n

\* the guard of the body of _naive_fw_kernel
NaiveInRange(x, y, n) == y < n /\ x < n

\* where a thread stands when its kernel starts. The guard of the naive
\* kernel reads registers and parameters only, so a thread it masks is done
\* without a step of its own.
Entry(k, t) ==
    IF k.kind = "naive" /\ ~NaiveInRange(ThreadX(t), ThreadY(t), k.nvertex)
    THEN "done"
    ELSE "start"

\* Values an uninitialised register may hold. The registers of the threads
\* of one launch hold the same stale value, chosen when the kernel starts.
Indeterminate == {NONE, 0}

StartKernel ==
    /\ pc # "exited"
    /\ kernel.kind = "none"
    /\ stream # << >>
    /\ \E v \in (IF Head(stream).kind = "dependent" THEN Indeterminate ELSE {0}) :
          kernel' = [Head(stream) EXCEPT !.stale = v]
    /\ stream' = Tail(stream)
    /\ tpc' = [t \in Threads(kernel') |-> Entry(kernel', t)]
    /\ tloc' = [t \in Threads(kernel') |-> NoRegs]
    /\ IF kernel'.kind = "dependent"
       THEN /\ cacheGraph' = [c \in Tile |-> 0]
            /\ cachePred' = [c \in Tile |-> 0]
       ELSE UNCHANGED << cacheGraph, cachePred >>
    /\ UNCHANGED << hostVars, pc, vertex, memVars, lastError, oob, overflow,
                    devOps, issued, completed >>

FinishKernel ==
    /\ pc # "exited"
    /\ kernel.kind # "none"
    /\ \A t \in DOMAIN tpc : tpc[t] = "done"
    /\ kernel' = NoKernel
    /\ tpc' = << >>
    /\ tloc' = << >>
    /\ cacheGraph' = << >>
    /\ cachePred' = << >>
    /\ completed' = Append(completed, kernel.arg)
    /\ UNCHANGED << hostVars, pc, vertex, memVars, stream, lastError, oob,
                    overflow, devOps, issued >>

(***************************************************************************)
(* _naive_fw_kernel                                                        *)
(***************************************************************************)
\* the comparison made non-strict
NaiveImprovesOrEqual(oldPath, newPath) == oldPath >= newPath

\* line 41: the test that lets a thread relax its cell
NaiveImproves(oldPath, newPath) == oldPath > newPath

\* lines 36-41 of a thread inside the guard: the three loads and the test
NaiveLoad(t) ==
    /\ pc # "exited"
    /\ kernel.kind = "naive"
    /\ tpc[t] = "start"
    /\ LET x == ThreadX(t)
           y == ThreadY(t)
           u == kernel.arg
           indexYX == y * kernel.pitch + x
           indexUX == u * kernel.pitch + x
           indexYU == y * kernel.pitch + u
           a == Rd(graphDevice, indexYU)
           b == Rd(graphDevice, indexUX)
           newPath == IntAdd(a, b)
           oldPath == Rd(graphDevice, indexYX)
       IN  /\ oob' = (oob \/ ~InMatrix(kernel, indexYU)
                          \/ ~InMatrix(kernel, indexUX)
                          \/ ~InMatrix(kernel, indexYX))
           /\ overflow' = (overflow \/ Overflows(a, b))
           /\ IF NaiveImproves(oldPath, newPath)
              THEN /\ tpc' = [tpc EXCEPT ![t] = "store"]
                   /\ tloc' = [tloc EXCEPT ![t].newPath = newPath]
              ELSE /\ tpc' = [tpc EXCEPT ![t] = "done"]
                   /\ UNCHANGED tloc
    /\ UNCHANGED << hostVars, pc, vertex, memVars, stream, kernel, cacheGraph,
                    cachePred, lastError, devOps, issued, completed >>

\* the store going to the cell of the pivot row
NaiveStoreCellPivotRow(indexYX, indexUX) == indexUX

\* line 42: the cell the new distance is stored to
NaiveStoreCell(indexYX, indexUX) == indexYX

\* graph[indexYX] = newPath
NaiveStoreGraph(t) ==
    /\ pc # "exited"
    /\ kernel.kind = "naive"
    /\ tpc[t] = "store"
    /\ LET indexYX == ThreadY(t) * kernel.pitch + ThreadX(t)
           indexUX == kernel.arg * kernel.pitch + ThreadX(t)
           cell == NaiveStoreCell(indexYX, indexUX)
       IN  /\ graphDevice' = Wr(graphDevice, cell, tloc[t].newPath)
           /\ oob' = (oob \/ ~InMatrix(kernel, cell))
    /\ tpc' = [tpc EXCEPT ![t] = "storePred"]
    /\ UNCHANGED << hostVars, pc, vertex, pitch, predDevice, graphAlloc,
                    predAlloc, stream, kernel, tloc, cacheGraph, cachePred,
                    lastError, overflow, devOps, issued, completed >>

\* pred[indexYX] = pred[indexUX]
NaiveStorePred(t) ==
    /\ pc # "exited"
    /\ kernel.kind = "naive"
    /\ tpc[t] = "storePred"
    /\ LET indexYX == ThreadY(t) * kernel.pitch + ThreadX(t)
           indexUX == kernel.arg * kernel.pitch + ThreadX(t)
       IN  /\ predDevice' = Wr(predDevice, indexYX, Rd(predDevice, indexUX))
           /\ oob' = (oob \/ ~InMatrix(kernel, indexYX)
                          \/ ~InMatrix(kernel, indexUX))
    /\ tpc' = [tpc EXCEPT ![t] = "done"]
    /\ UNCHANGED << hostVars, pc, vertex, pitch, graphDevice, graphAlloc,
                    predAlloc, stream, kernel, tloc, cacheGraph, cachePred,
                    lastError, overflow, devOps, issued, completed >>

(***************************************************************************)
(* _blocked_fw_dependent_ph: one block of BLOCK_SIZE x BLOCK_SIZE threads  *)
(***************************************************************************)
\* lines 62-77: the tile cell is loaded, or masked when out of range
DependentLoad(t) ==
    /\ pc # "exited"
    /\ kernel.kind = "dependent"
    /\ tpc[t] = "start"
    /\ LET idx == t[3]
           idy == t[4]
           v1 == BLOCK_SIZE * kernel.arg + idy
           v2 == BLOCK_SIZE * kernel.arg + idx
           cellId == v1 * kernel.pitch + v2
       IN  IF v1 < kernel.nvertex /\ v2 < kernel.nvertex
           THEN /\ cacheGraph' = [cacheGraph EXCEPT ![<<idy, idx>>] = Rd(graphDevice, cellId)]
                /\ cachePred' = [cachePred EXCEPT ![<<idy, idx>>] = Rd(predDevice, cellId)]
                /\ oob' = (oob \/ ~InMatrix(kernel, cellId))
           ELSE /\ cacheGraph' = [cacheGraph EXCEPT ![<<idy, idx>>] = MAX_DISTANCE]
                /\ cachePred' = [cachePred EXCEPT ![<<idy, idx>>] = -1]
                /\ UNCHANGED oob
    /\ tpc' = [tpc EXCEPT ![t] = "sync81"]
    /\ UNCHANGED << hostVars, pc, vertex, memVars, stream, kernel, tloc,
                    lastError, overflow, devOps, issued, completed >>

\* where a thread continues after a barrier
AfterBarrier(b) ==
    CASE b = "sync81" -> "sum"
      [] b = "sync91" -> "relax"
      [] b = "sync98" -> "commit"

\* __syncthreads(): released once every thread of the block has arrived
SyncThreads ==
    /\ pc # "exited"
    /\ kernel.kind = "dependent"
    /\ \E b \in {"sync81", "sync91", "sync98"} :
          /\ \A t \in DOMAIN tpc : tpc[t] = b
          /\ tpc' = [t \in DOMAIN tpc |-> AfterBarrier(b)]
    /\ UNCHANGED << hostVars, pc, vertex, memVars, stream, kernel, tloc,
                    cacheGraph, cachePred, lastError, oob, overflow, devOps,
                    issued, completed >>

\* line 88: newPath = cacheGraph[idy][u] + cacheGraph[u][idx]
DependentSum(t) ==
    /\ pc # "exited"
    /\ kernel.kind = "dependent"
    /\ tpc[t] = "sum"
    /\ LET idx == t[3]
           idy == t[4]
           u == tloc[t].u
           a == cacheGraph[<<idy, u>>]
           b == cacheGraph[<<u, idx>>]
       IN  /\ tloc' = [tloc EXCEPT ![t].newPath = IntAdd(a, b)]
           /\ overflow' = (overflow \/ Overflows(a, b))
    /\ tpc' = [tpc EXCEPT ![t] = "sync91"]
    /\ UNCHANGED << hostVars, pc, vertex, memVars, stream, kernel, cacheGraph,
                    cachePred, lastError, oob, devOps, issued, completed >>

\* lines 92-95
DependentRelax(t) ==
    /\ pc # "exited"
    /\ kernel.kind = "dependent"
    /\ tpc[t] = "relax"
    /\ LET idx == t[3]
           idy == t[4]
           u == tloc[t].u
       IN  IF tloc[t].newPath < cacheGraph[<<idy, idx>>]
           THEN /\ cacheGraph' = [cacheGraph EXCEPT ![<<idy, idx>>] = tloc[t].newPath]
                /\ tloc' = [tloc EXCEPT ![t].newPred = cachePred[<<u, idx>>],
                                        ![t].predSet = TRUE]
           ELSE UNCHANGED << cacheGraph, tloc >>
    /\ tpc' = [tpc EXCEPT ![t] = "sync98"]
    /\ UNCHANGED << hostVars, pc, vertex, memVars, stream, kernel, cachePred,
                    lastError, oob, overflow, devOps, issued, completed >>

\* line 99 and the loop step: cachePred[idy][idx] = newPred, where newPred
\* is an uninitialised register until the first improvement
DependentCommit(t) ==
    /\ pc # "exited"
    /\ kernel.kind = "dependent"
    /\ tpc[t] = "commit"
    /\ cachePred' = [cachePred EXCEPT ![<<t[4], t[3]>>] =
                        IF tloc[t].predSet THEN tloc[t].newPred ELSE kernel.stale]
    /\ tloc' = [tloc EXCEPT ![t].u = @ + 1]
    /\ tpc' = [tpc EXCEPT ![t] = IF tloc[t].u + 1 < BLOCK_SIZE THEN "sum" ELSE "done"]
    /\ UNCHANGED << hostVars, pc, vertex, memVars, stream, kernel, cacheGraph,
                    lastError, oob, overflow, devOps, issued, completed >>

(***************************************************************************)
(* The system.                                                             *)
(***************************************************************************)
Host ==
    \/ \E s \in {"naive", "blocked"} : Call(s)
    \/ \E ok \in BOOLEAN : SetDevice(ok)
    \/ \E ok \in BOOLEAN : MallocGraph(ok)
    \/ \E ok \in BOOLEAN : MallocPred(ok)
    \/ \E ok \in BOOLEAN : CopyGraphToDevice(ok)
    \/ \E ok \in BOOLEAN : CopyPredToDevice(ok)
    \/ \E failing, ok \in BOOLEAN : Launch(failing, ok)
    \/ EventRecordStart
    \/ EventSynchronize
    \/ GetLastError
    \/ \E ok \in BOOLEAN : DeviceSynchronize(ok)
    \/ \E ok \in BOOLEAN : CopyPredToHost(ok)
    \/ \E ok \in BOOLEAN : CopyGraphToHost(ok)
    \/ \E ok \in BOOLEAN : FreePred(ok)
    \/ \E ok \in BOOLEAN : FreeGraph(ok)

Device ==
    \/ StartKernel
    \/ FinishKernel
    \/ SyncThreads
    \/ \E t \in DOMAIN tpc :
          \/ NaiveLoad(t)
          \/ NaiveStoreGraph(t)
          \/ NaiveStorePred(t)
          \/ DependentLoad(t)
          \/ DependentSum(t)
          \/ DependentRelax(t)
          \/ DependentCommit(t)

Next == Host \/ Device

\* one call of a driver on every input topology
Spec == Init /\ [][Next]_vars

\* a call, and a second call on its result
NextRerun == Next \/ Recall

SpecRerun == Init /\ [][NextRerun]_vars

(***************************************************************************)
(* Reference: sequential Floyd-Warshall on a row-major matrix, in place,   *)
(* pivots outermost, then rows, then columns.                              *)
(***************************************************************************)
RefRelax(g, n, k, c) ==
    LET via == g[(c \div n) * n + k] + g[k * n + (c % n)]
    IN  IF via < g[c] THEN [g EXCEPT ![c] = via] ELSE g

RECURSIVE RefLoop(_, _, _)
RefLoop(g, n, step) ==
    IF step >= n * n * n THEN g
    ELSE RefLoop(RefRelax(g, n, step \div (n * n), step % (n * n)), n, step + 1)

SeqFW(g, n) == RefLoop(g, n, 0)

\* the driver has returned to its caller
Returned(s) == strategy = s /\ pc = "returned"

\* C1: after cudaNaiveFW returns, the host distance matrix equals, cell for
\* cell, the result of sequential Floyd-Warshall on the matrix it was called
\* with, whatever the interleaving of the threads inside the pivot steps.
C1_NaiveMatchesReference ==
    Returned("naive") => hostGraph = SeqFW(inGraph, nvertex)

\* a naive run on three vertices has returned and has replaced an edge by a
\* shorter path
C1_Witness ==
    /\ Returned("naive")
    /\ nvertex = 3
    /\ \E c \in Cells(nvertex) : inGraph[c] < MAX_DISTANCE /\ hostGraph[c] < inGraph[c]

\* C2: after cudaBlockedFW returns, the host distance matrix equals the
\* result of sequential Floyd-Warshall on the matrix it was called with.
C2_BlockedMatchesReference ==
    Returned("blocked") => hostGraph = SeqFW(inGraph, nvertex)

\* C3: when a run has ended, by returning or by a failure, neither device
\* buffer is still allocated.
C3_BuffersFreedAtEnd ==
    pc \in {"returned", "exited"} => ~graphAlloc /\ ~predAlloc

\* Following the predecessors P[i][j], P[i][P[i][j]], ... from j back to i,
\* in at most `steps` hops: whether i is reached over edges of g, and the
\* sum of their weights.
RECURSIVE Chain(_, _, _, _, _, _)
Chain(g, P, n, i, j, steps) ==
    IF j = i THEN [ok |-> TRUE, sum |-> 0]
    ELSE IF steps = 0 THEN [ok |-> FALSE, sum |-> 0]
    ELSE LET p == P[i * n + j]
         IN  IF p \notin 0 .. n - 1 \/ p = j THEN [ok |-> FALSE, sum |-> 0]
             ELSE IF g[p * n + j] = MAX_DISTANCE THEN [ok |-> FALSE, sum |-> 0]
             ELSE LET r == Chain(g, P, n, i, p, steps - 1)
                  IN  [ok |-> r.ok, sum |-> r.sum + g[p * n + j]]

\* the predecessor chain of (i, j) in the host matrices is a path of the
\* input graph of weight D[i][j]
ValidChain(i, j) ==
    LET r == Chain(inGraph, hostPred, nvertex, i, j, nvertex)
    IN  r.ok /\ r.sum = hostGraph[i * nvertex + j]

\* C4: after cudaNaiveFW completes on an input whose predecessor matrix is
\* P[i][j] = i on the edges and NONE elsewhere, for every pair i # j with
\* D[i][j] < INF the predecessors lead from j back to i within nvertex steps
\* over edges of the input whose weights sum to D[i][j].
C4_PredecessorChainValid ==
    (Returned("naive") /\ inPred = InputPred(inGraph, nvertex)) =>
        \A i, j \in 0 .. nvertex - 1 :
            (i # j /\ hostGraph[i * nvertex + j] < MAX_DISTANCE) => ValidChain(i, j)

\* C5: a second run of cudaNaiveFW, on the matrices the first run returned,
\* changes no cell of D and no cell of P.
C5_NaiveIdempotent ==
    (Returned("naive") /\ run = 2) => (hostGraph = inGraph /\ hostPred = inPred)

\* the second naive run has returned, on matrices the first run had changed
C5_Witness ==
    /\ Returned("naive")
    /\ run = 2
    /\ nvertex = 3
    /\ inPred # InputPred(inGraph, nvertex)

\* the device distance matrix holds the (partly relaxed) input
GraphOnDevice ==
    pc \in {"copyPredToDevice", "eventRecordStart", "launch", "getLastError",
            "deviceSynchronize", "copyPredToHost", "copyGraphToHost", "freePred"}

\* the device predecessor matrix holds the (partly updated) input
PredOnDevice == GraphOnDevice /\ pc # "copyPredToDevice"

\* cell (i, j) of the device matrices
DeviceD(i, j) == graphDevice[i * (pitch \div SizeofInt) + j]
DeviceP(i, j) == predDevice[i * (pitch \div SizeofInt) + j]

\* C6: in a run of cudaNaiveFW, D[i][i] = 0 and P[i][i] has its input value
\* for every i after the last pivot step, in the device matrices (where they
\* hold at every step of the run) and in the matrices returned to the host.
C6_ZeroDiagonal ==
    strategy = "naive" =>
        \A i \in 0 .. nvertex - 1 :
            /\ GraphOnDevice => DeviceD(i, i) = 0
            /\ PredOnDevice => DeviceP(i, i) = inPred[i * nvertex + i]
            /\ pc = "returned" =>
                   /\ hostGraph[i * nvertex + i] = 0
                   /\ hostPred[i * nvertex + i] = inPred[i * nvertex + i]

\* a naive run has returned on a graph with a cycle of weight zero
C6_Witness ==
    /\ Returned("naive")
    /\ nvertex >= 2
    /\ inGraph[1] + inGraph[nvertex] = 0
    /\ hostGraph # inGraph

NonNegative(g) == \A c \in DOMAIN g : g[c] >= 0

\* C7: no sum of two distances computed at a pivot step leaves the int
\* range; a graph without edges ends with D and P unchanged (INF off the
\* diagonal); and with non-negative weights a pair with no path has
\* D = INF at every step.
C7_NoOverflowInfStays ==
    /\ ~overflow
    /\ (pc = "returned" /\ NumEdges(inGraph, nvertex) = 0) =>
           (hostGraph = inGraph /\ hostPred = inPred)
    /\ (GraphOnDevice /\ NonNegative(inGraph)) =>
           \A i, j \in 0 .. nvertex - 1 :
               Walk(inGraph, nvertex, i, j, nvertex) = MAX_DISTANCE =>
                   DeviceD(i, j) = MAX_DISTANCE

\* all pivot steps have run on a graph of non-negative weights with a
\* two-edge path and a pair with no path: INF + INF has been computed
C7_Witness ==
    /\ strategy = "naive"
    /\ pc = "copyPredToHost"
    /\ nvertex = 3
    /\ NonNegative(inGraph)
    /\ \E c \in Cells(nvertex) : DeviceD(c \div nvertex, c % nvertex) < inGraph[c]
    /\ \E c \in OffDiag(nvertex) : DeviceD(c \div nvertex, c % nvertex) = MAX_DISTANCE

\* the thread's tile cell lies outside the matrix
Masked(k, t) ==
    \/ BLOCK_SIZE * k.arg + t[4] >= k.nvertex
    \/ BLOCK_SIZE * k.arg + t[3] >= k.nvertex

\* C8: no thread of the naive kernel or of the dependent-phase kernel reads
\* or writes a device cell whose row or column is >= nvertex; the dependent
\* phase loads such a cell into the tile cache as MAX_DISTANCE / -1.
C8_NoAccessBeyondNvertex ==
    /\ ~oob
    /\ kernel.kind = "dependent" =>
           \A t \in DOMAIN tpc :
               (tpc[t] = "sync81" /\ Masked(kernel, t)) =>
                   /\ cacheGraph[<<t[4], t[3]>>] = MAX_DISTANCE
                   /\ cachePred[<<t[4], t[3]>>] = NONE

\* the last tile of a matrix whose nvertex is not a multiple of BLOCK_SIZE
\* has been loaded, masked cells included
C8_Witness ==
    /\ kernel.kind = "dependent"
    /\ kernel.nvertex % BLOCK_SIZE # 0
    /\ kernel.nvertex > BLOCK_SIZE
    /\ kernel.arg = NumBlock(kernel.nvertex) - 1
    /\ \A t \in DOMAIN tpc : tpc[t] = "sync81"
    /\ \E t \in DOMAIN tpc : Masked(kernel, t)
    /\ \E t \in DOMAIN tpc : ~Masked(kernel, t)

\* C9: a topology with nvertex = 0 is rejected before any device operation:
\* no CUDA runtime call is made in such a run.
C9_InvalidTopologyNoDeviceWork ==
    nvertex = 0 => devOps = {}

\* <<0, 1, ..., k - 1>>
Upto(k) == [i \in 1 .. k |-> i - 1]

\* C10: cudaNaiveFW issues the pivot steps in the order 0, 1, ...; the step
\* of pivot u runs only when the steps of all pivots below u are complete;
\* and when the host copies the result back, exactly one step per pivot,
\* 0 .. nvertex - 1, has completed.
C10_PivotStepsInOrder ==
    strategy = "naive" =>
        /\ issued = Upto(Len(issued))
        /\ completed = Upto(Len(completed))
        /\ kernel.kind = "naive" => completed = Upto(kernel.arg)
        /\ pc \in {"copyPredToHost", "copyGraphToHost", "freePred", "freeGraph",
                   "returned"} => completed = Upto(nvertex)

\* a thread of the step of pivot 1 is storing while the step of pivot 2 is
\* already issued and waiting in the stream
C10_Witness ==
    /\ kernel.kind = "naive"
    /\ kernel.arg = 1
    /\ \E t \in DOMAIN tpc : tpc[t] = "storePred"
    /\ Len(stream) = 1
    /\ completed = << 0 >>

(***************************************************************************)
(* Reference: the pivot steps of Floyd-Warshall with predecessors, every   *)
(* cell of a step computed from the matrices the step started with.        *)
(***************************************************************************)
\* the matrices after the step of pivot u on m = [graph, pred]
RefStep(m, n, u) ==
    LET via(c) == IntAdd(m.graph[(c \div n) * n + u], m.graph[u * n + (c % n)])
    IN  [graph |-> [c \in Cells(n) |->
                       IF via(c) < m.graph[c] THEN via(c) ELSE m.graph[c]],
         pred  |-> [c \in Cells(n) |->
                       IF via(c) < m.graph[c] THEN m.pred[u * n + (c % n)]
                       ELSE m.pred[c]]]

\* the matrices after the steps of the pivots 0 .. k - 1
RECURSIVE RefSteps(_, _, _)
RefSteps(m, n, k) ==
    IF k = 0 THEN m ELSE RefStep(RefSteps(m, n, k - 1), n, k - 1)

\* the matrices of the current call after the pivot steps completed so far
StepStart == RefSteps([graph |-> inGraph, pred |-> inPred], nvertex, Len(completed))

\* the thread of the naive kernel that owns cell (y, x)
ThreadOf(y, x) ==
    << x \div BLOCK_SIZE, y \div BLOCK_SIZE, x % BLOCK_SIZE, y % BLOCK_SIZE >>

\* C11: inside the naive step of pivot u no cell of row u or column u of D
\* or P changes; every other cell holds the value the step started with
\* until its thread has stored and the value computed from the matrices the
\* step started with afterwards; so between two steps the device matrices
\* are a function of the input alone, whatever the interleaving.
C11_NaiveStepRaceFree ==
    (strategy = "naive" /\ PredOnDevice) =>
        LET u == Len(completed)
            S == StepStart
        IN  /\ kernel.kind = "none" =>
                   \A y, x \in 0 .. nvertex - 1 :
                       /\ DeviceD(y, x) = S.graph[y * nvertex + x]
                       /\ DeviceP(y, x) = S.pred[y * nvertex + x]
            /\ kernel.kind = "naive" =>
                   LET T == RefStep(S, nvertex, u)
                   IN  /\ kernel.arg = u
                       /\ \A y, x \in 0 .. nvertex - 1 :
                              LET c == y * nvertex + x
                                  t == ThreadOf(y, x)
                              IN  /\ (y = u \/ x = u) =>
                                         /\ DeviceD(y, x) = S.graph[c]
                                         /\ DeviceP(y, x) = S.pred[c]
                                         /\ tpc[t] \in {"start", "done"}
                                  /\ DeviceD(y, x) \in {S.graph[c], T.graph[c]}
                                  /\ DeviceP(y, x) \in {S.pred[c], T.pred[c]}
                                  /\ tpc[t] \in {"start", "store"} =>
                                         DeviceD(y, x) = S.graph[c]
                                  /\ tpc[t] \in {"start", "store", "storePred"} =>
                                         DeviceP(y, x) = S.pred[c]
                                  /\ tpc[t] = "done" =>
                                         /\ DeviceD(y, x) = T.graph[c]
                                         /\ DeviceP(y, x) = T.pred[c]

\* in the step of pivot 2 on three vertices one thread has stored a shorter
\* path and its predecessor while another thread has not yet loaded
C11_Witness ==
    /\ kernel.kind = "naive"
    /\ kernel.arg = 2
    /\ nvertex = 3
    /\ \E t \in DOMAIN tpc : tpc[t] = "start"
    /\ \E y, x \in 0 .. nvertex - 1 :
          /\ tpc[ThreadOf(y, x)] = "done"
          /\ DeviceD(y, x) < StepStart.graph[y * nvertex + x]
          /\ DeviceP(y, x) # StepStart.pred[y * nvertex + x]

\* the matrix row / column of a thread's tile cell in the dependent phase
TileRow(k, t) == BLOCK_SIZE * k.arg + t[4]
TileCol(k, t) == BLOCK_SIZE * k.arg + t[3]

\* every thread of the running kernel has finished
AllDone == \A t \in DOMAIN tpc : tpc[t] = "done"

\* C12: when the dependent-phase step of diagonal block k completes, every
\* in-range cell of tile (k, k) of the device distance and predecessor
\* matrices holds the value its tile cache cell has reached.
C12_TileWrittenBack ==
    (kernel.kind = "dependent" /\ AllDone) =>
        \A t \in DOMAIN tpc :
            ~Masked(kernel, t) =>
                LET cellId == TileRow(kernel, t) * kernel.pitch + TileCol(kernel, t)
                IN  /\ graphDevice[cellId] = cacheGraph[<<t[4], t[3]>>]
                    /\ predDevice[cellId] = cachePred[<<t[4], t[3]>>]

\* the tile the dependent phase loads, as a BLOCK_SIZE x BLOCK_SIZE
\* row-major matrix: masked cells are MAX_DISTANCE / NONE
LoadedTile ==
    LET cell(c) == (BLOCK_SIZE * kernel.arg + (c \div BLOCK_SIZE)) * kernel.pitch
                   + (BLOCK_SIZE * kernel.arg + (c % BLOCK_SIZE))
        in(c) == /\ BLOCK_SIZE * kernel.arg + (c \div BLOCK_SIZE) < kernel.nvertex
                 /\ BLOCK_SIZE * kernel.arg + (c % BLOCK_SIZE) < kernel.nvertex
    IN  [graph |-> [c \in Cells(BLOCK_SIZE) |->
                       IF in(c) THEN graphDevice[cell(c)] ELSE MAX_DISTANCE],
         pred  |-> [c \in Cells(BLOCK_SIZE) |->
                       IF in(c) THEN predDevice[cell(c)] ELSE NONE]]

\* the tile cache equals the loaded tile after the inner pivots 0 .. u - 1
CacheIs(u) ==
    LET R == RefSteps(LoadedTile, BLOCK_SIZE, u)
    IN  \A c \in Cells(BLOCK_SIZE) :
            /\ cacheGraph[<<c \div BLOCK_SIZE, c % BLOCK_SIZE>>] = R.graph[c]
            /\ cachePred[<<c \div BLOCK_SIZE, c % BLOCK_SIZE>>] = R.pred[c]

\* C13: the barriers of the dependent phase separate the reads of the tile
\* cache from its writes, so whenever the block stands at the barrier before
\* the relaxation of inner pivot u the cached distances and predecessors are
\* those of sequential Floyd-Warshall after the pivots 0 .. u - 1, and when
\* the kernel ends those after all BLOCK_SIZE pivots, for every interleaving.
C13_BarriersOrderTile ==
    kernel.kind = "dependent" =>
        /\ (\A t \in DOMAIN tpc : tpc[t] = "sync91") =>
               \E u \in 0 .. BLOCK_SIZE - 1 :
                   (\A t \in DOMAIN tpc : tloc[t].u = u) /\ CacheIs(u)
        /\ AllDone => CacheIs(BLOCK_SIZE)

\* the predecessor a thread's tile cell was loaded with
LoadedPred(k, t) ==
    IF Masked(k, t) THEN NONE
    ELSE predDevice[TileRow(k, t) * k.pitch + TileCol(k, t)]

\* C14: in the dependent phase a cell whose distance has not been improved
\* at any inner pivot so far holds the predecessor it was loaded with (NONE
\* for a masked cell); an improved cell holds the predecessor recorded at
\* its last improvement.
C14_CachedPredFrame ==
    kernel.kind = "dependent" =>
        \A t \in DOMAIN tpc :
            tpc[t] # "start" =>
                /\ ~tloc[t].predSet =>
                       cachePred[<<t[4], t[3]>>] = LoadedPred(kernel, t)
                /\ (tloc[t].predSet /\ tpc[t] = "done") =>
                       cachePred[<<t[4], t[3]>>] = tloc[t].newPred

\* the tiles of block-row k and block-column k other than (k, k)
PartialTiles(k, nb) ==
    { tl \in (0 .. nb - 1) \X (0 .. nb - 1) :
        (tl[1] = k \/ tl[2] = k) /\ tl # <<k, k>> }

\* the tiles outside block-row k and block-column k
IndependentTiles(k, nb) ==
    { tl \in (0 .. nb - 1) \X (0 .. nb - 1) : tl[1] # k /\ tl[2] # k }

\* the phases of diagonal block k that have a tile to work on, in order
PhasesOf(k, nb) ==
    << [phase |-> "dependent", block |-> k] >>
    \o (IF PartialTiles(k, nb) # {}
        THEN << [phase |-> "partial", block |-> k] >> ELSE << >>)
    \o (IF IndependentTiles(k, nb) # {}
        THEN << [phase |-> "independent", block |-> k] >> ELSE << >>)

\* the phases of the diagonal blocks 0 .. k - 1
RECURSIVE PhasePlan(_, _)
PhasePlan(k, nb) ==
    IF k = 0 THEN << >> ELSE PhasePlan(k - 1, nb) \o PhasesOf(k - 1, nb)

\* The kernel steps a blocked run has completed. The only launch of the
\* loop of cudaBlockedFW is the dependent phase.
StepsRun == [i \in 1 .. Len(completed) |-> [phase |-> "dependent", block |-> completed[i]]]

\* the launch loop is over and its launches have been checked
LoopDone ==
    pc \in {"deviceSynchronize", "copyPredToHost", "copyGraphToHost", "freePred",
            "freeGraph", "returned"}

\* C15: cudaBlockedFW runs, for each diagonal block k in increasing order,
\* the dependent phase, then the partially dependent phase on block-row and
\* block-column k, then the independent phase on the remaining tiles, each
\* as a step of its own: when the loop is over and the device idle, the
\* steps run are exactly these phases in this order.
C15_ThreePhasesInOrder ==
    (strategy = "blocked" /\ nvertex >= 1 /\ LoopDone) =>
        StepsRun = PhasePlan(NumBlock(nvertex), NumBlock(nvertex))

\* the smallest m with m * b >= n, for n >= 1
CeilDiv(n, b) == CHOOSE m \in 1 .. n : m * b >= n /\ (m - 1) * b < n

\* C16: cudaBlockedFW issues the dependent phase once per blockID, in the
\* order 0, 1, ..., each with a single BLOCK_SIZE x BLOCK_SIZE thread block,
\* ceil(nvertex / BLOCK_SIZE) times in all and nothing else; for
\* 1 <= nvertex <= BLOCK_SIZE that is the one step on tile (0, 0).
C16_DependentPhasePerBlock ==
    (strategy = "blocked" /\ nvertex >= 1) =>
        /\ issued = Upto(Len(issued))
        /\ Len(issued) <= CeilDiv(nvertex, BLOCK_SIZE)
        /\ kernel.kind # "none" =>
               /\ kernel.kind = "dependent"
               /\ kernel.grid = 1
               /\ Cardinality(DOMAIN tpc) = BLOCK_SIZE * BLOCK_SIZE
        /\ LoopDone =>
               /\ issued = Upto(CeilDiv(nvertex, BLOCK_SIZE))
               /\ completed = issued
               /\ nvertex <= BLOCK_SIZE => issued = << 0 >>

\* a blocked run on exactly BLOCK_SIZE vertices has returned after its one
\* dependent-phase step
C16_Witness ==
    /\ Returned("blocked")
    /\ nvertex = BLOCK_SIZE
    /\ completed = << 0 >>

\* the matrices of the current call after all nvertex pivot steps
Final == RefSteps([graph |-> inGraph, pred |-> inPred], nvertex, nvertex)

\* C17: in cudaNaiveFW the host matrices keep their input values until all
\* nvertex pivot steps have completed and the device has been synchronised;
\* each is then replaced once, P first and D second, by the result of all
\* the pivots; and a device buffer is freed only when both have been copied.
C17_HostUntouchedUntilSync ==
    strategy = "naive" =>
        /\ pc \in {"setDevice", "mallocGraph", "mallocPred", "copyGraphToDevice",
                   "copyPredToDevice", "launch", "getLastError",
                   "deviceSynchronize", "copyPredToHost"} =>
               (hostGraph = inGraph /\ hostPred = inPred)
        /\ pc \in {"copyPredToHost", "copyGraphToHost", "freePred", "freeGraph",
                   "returned"} =>
               /\ stream = << >>
               /\ kernel.kind = "none"
               /\ completed = Upto(nvertex)
               /\ "cudaDeviceSynchronize" \in devOps
        /\ pc = "copyGraphToHost" =>
               (hostGraph = inGraph /\ hostPred = Final.pred)
        /\ pc \in {"freePred", "freeGraph", "returned"} =>
               (hostGraph = Final.graph /\ hostPred = Final.pred)
        /\ (hostGraph = inGraph \/ hostGraph = Final.graph)
        /\ (hostPred = inPred \/ hostPred = Final.pred)
        /\ (hostGraph # inGraph \/ hostPred # inPred) =>
               (completed = Upto(nvertex) /\ "cudaDeviceSynchronize" \in devOps)
        /\ "cudaFree" \in devOps =>
               (hostGraph = Final.graph /\ hostPred = Final.pred)
        /\ pc \in {"launch", "getLastError", "deviceSynchronize", "copyPredToHost",
                   "copyGraphToHost", "freePred"} => (graphAlloc /\ predAlloc)

\* between the two downloads of a naive run on three vertices: the host has
\* the new predecessors and still the input distances
C17_Witness ==
    /\ strategy = "naive"
    /\ pc = "copyGraphToHost"
    /\ nvertex = 3
    /\ hostPred # inPred
    /\ hostGraph = inGraph
    /\ Final.graph # inGraph

\* C18: for nvertex >= 1 the naive kernel runs on ceil(nvertex / BLOCK_SIZE)
\* blocks per dimension of BLOCK_SIZE x BLOCK_SIZE threads; every cell
\* (x, y) with x, y < nvertex belongs to exactly one thread; and a thread
\* with x >= nvertex or y >= nvertex never loads or stores.
C18_NaiveGridCoversMatrix ==
    (kernel.kind = "naive" /\ kernel.nvertex >= 1) =>
        /\ kernel.grid = CeilDiv(kernel.nvertex, BLOCK_SIZE)
        /\ Cardinality(DOMAIN tpc) =
               (kernel.grid * BLOCK_SIZE) * (kernel.grid * BLOCK_SIZE)
        /\ \A y, x \in 0 .. kernel.nvertex - 1 :
               Cardinality({ t \in DOMAIN tpc : ThreadX(t) = x /\ ThreadY(t) = y }) = 1
        /\ \A t \in DOMAIN tpc :
               (ThreadX(t) >= kernel.nvertex \/ ThreadY(t) >= kernel.nvertex) =>
                   tpc[t] = "done"

\* a naive step on three vertices with tile width 2: threads outside the
\* matrix exist and are idle while a thread inside it is storing
C18_Witness ==
    /\ kernel.kind = "naive"
    /\ kernel.nvertex % BLOCK_SIZE # 0
    /\ kernel.nvertex > BLOCK_SIZE
    /\ \E t \in DOMAIN tpc : ThreadX(t) >= kernel.nvertex /\ ThreadY(t) < kernel.nvertex
    /\ \E t \in DOMAIN tpc : tpc[t] = "store"

\* length of a shortest path i -> j of graph g whose intermediate vertices
\* all lie in 0 .. k - 1 (MAX_DISTANCE: none)
RECURSIVE Via(_, _, _, _, _)
Via(g, n, i, j, k) ==
    IF k = 0 THEN g[i * n + j]
    ELSE Min2(Via(g, n, i, j, k - 1),
              SatAdd(Via(g, n, i, k - 1, k - 1), Via(g, n, k - 1, j, k - 1)))

\* C19: across the pivot steps of cudaNaiveFW every cell D[y][x] is at most
\* the value its step started with (and so the input), is never below the
\* true shortest-path distance from y to x, and once the steps of the pivots
\* 0 .. u have completed is at most the length of the shortest path with
\* intermediate vertices in 0 .. u; P[y][x] differs from the value its step
\* started with only if D[y][x] is strictly below the value it started with.
C19_MonotoneBoundedD ==
    (strategy = "naive" /\ PredOnDevice) =>
        LET S == StepStart
        IN  \A y, x \in 0 .. nvertex - 1 :
                LET c == y * nvertex + x
                IN  /\ DeviceD(y, x) <= S.graph[c]
                    /\ S.graph[c] <= inGraph[c]
                    /\ DeviceD(y, x) >= Walk(inGraph, nvertex, y, x, nvertex)
                    /\ DeviceD(y, x) <= Via(inGraph, nvertex, y, x, Len(completed))
                    /\ DeviceP(y, x) # S.pred[c] => DeviceD(y, x) < S.graph[c]

====
